---- MODULE Spec2Model ----
(***************************************************************************)
(* Model of the AI image renamer: the item collection held by the App      *)
(* component (processedImages), the per-item generation controller         *)
(* (handleGenerateNameForImage), the batch sequencer                       *)
(* (handleGenerateAllNames) and the keyword handlers.                      *)
(*                                                                         *)
(* React semantics the model keeps:                                        *)
(*  - a handler started from the UI closes over the state of the current   *)
(*    render, i.e. the live state at the moment of the click;              *)
(*  - an async handler keeps the closure of the render it was started in   *)
(*    for its whole life, so `processedImages` READ inside it after an      *)
(*    await is the array of that render, not the live one;                 *)
(*  - setProcessedImages(prev => ...) is applied to the live state.        *)
(*                                                                         *)
(* Strings that are only compared for equality are TLA+ strings; strings   *)
(* that are ordered (keywords) are tuples of UTF-16 code units.            *)
(***************************************************************************)
EXTENDS Integers, Sequences, FiniteSets, Bags, TLC

VARIABLES
    processedImages,  \* the live item collection (useState, line 22)
    nextRand,         \* number of Math.random() draws made so far
    requests,         \* generateImageDetails calls in flight (a bag)
    batches,          \* the runs of handleGenerateAllNames under way, by slot
    revoked,          \* the URLs handed to URL.revokeObjectURL so far (a bag)
    userKeywords,     \* the text of the keyword vocabulary field (useState, line 24)
    wordLimit,        \* the word limit of the generated names (useState, line 23)
    cleaning          \* one response of the AI service on its way through the
                      \* filename clean-up of generateImageDetails

vars == <<processedImages, nextRand, requests, batches, revoked, userKeywords,
          wordLimit, cleaning>>

----------------------------------------------------------------------------
(* Bounds *)

\* total number of items ever created by uploads
MaxUploads == 2
\* number of File objects handed to one handleImageUpload call
MaxFilesPerUpload == 2
\* number of runs of handleGenerateAllNames that can be under way at once
MaxBatches == 1
\* number of generateImageDetails calls that can be in flight at once
MaxInFlight == 2

----------------------------------------------------------------------------
(* Values *)

\* the absent error (error: string | null)
null == "null"

\* no response of the AI service is being cleaned
NoResponse == [stage |-> "none"]

\* File objects the user can pick: name (UTF-16 code units), lastModified,
\* MIME type <<major, minor>>.  The names are "a.jpg" and "notes.txt".
Files ==
    { [name |-> <<97, 46, 106, 112, 103>>, lastModified |-> 1,
       type |-> <<"image", "jpeg">>],
      [name |-> <<110, 111, 116, 101, 115, 46, 116, 120, 116>>, lastModified |-> 2,
       type |-> <<"text", "plain">>] }

\* file.type.startsWith('image/')
IsImageType(t) == t[1] = "image"

\* keywords as tuples of UTF-16 code units: "B", "a", "ab"
KwB == <<66>>
Kwa == <<97>>
Kwab == <<97, 98>>
Keywords == {KwB, Kwa, Kwab}

\* filenames generateImageDetails can return (cleaned, never empty)
GenNames == {"city-lights", "sunset-walk"}

\* keyword arrays the AI response can carry (any order, repeats possible)
GenKeywordArrays == { <<>>, <<Kwab, KwB>>, <<Kwa, Kwa>> }

\* messages of the Errors generateImageDetails throws
ErrorMessages ==
    { "Rate limit exceeded. Please wait and retry.",
      "Failed to generate details from AI service." }

\* line 23: useState<number>(10)
InitialWordLimit == 10

\* what an await of generateImageDetails can produce
Outcomes ==
    [ok : {TRUE}, filename : GenNames, keywords : GenKeywordArrays, message : {null}]
    \cup
    [ok : {FALSE}, filename : {""}, keywords : {<<>>}, message : ErrorMessages]

----------------------------------------------------------------------------
(* Sequence helpers: Array.prototype.filter / map / find / includes / sort *)

Range(s) == { s[i] : i \in 1..Len(s) }

\* s.filter(x => keep has x)
FilterSeq(s, keep) == LET Test(x) == x \in keep IN SelectSeq(s, Test)

\* the ids of a collection, in collection order
Ids(images) == [i \in 1..Len(images) |-> images[i].id]

\* processedImages.find(img => img.id === id) found something
Exists(images, id) == \E i \in 1..Len(images) : images[i].id = id

\* comparison of two strings by UTF-16 code units (the default of sort())
RECURSIVE StrLess(_, _)
StrLess(a, b) ==
    IF b = <<>> THEN FALSE
    ELSE IF a = <<>> THEN TRUE
    ELSE IF Head(a) # Head(b) THEN Head(a) < Head(b)
    ELSE StrLess(Tail(a), Tail(b))

\* insert x into the sorted sequence s, after the elements not greater than x
RECURSIVE Insert(_, _)
Insert(x, s) ==
    IF s = <<>> THEN <<x>>
    ELSE IF StrLess(x, Head(s)) THEN <<x>> \o s
    ELSE <<Head(s)>> \o Insert(x, Tail(s))

\* mutation of sort: the array is stored in the order it arrived
sort_Omitted(s) == s

\* Array.prototype.sort() with the default comparator
RECURSIVE sortSeq(_)
sortSeq(s) == IF s = <<>> THEN <<>> ELSE Insert(Head(s), sortSeq(Tail(s)))

sort(s) == sortSeq(s)

----------------------------------------------------------------------------
(* String helpers: String.prototype.trim / split, Array flatMap, new Set *)

\* the code units of ',' and of the space
Comma == 44
Space == 32

\* white space that can stand in the text of the field: tab, line feed, space
WhiteSpace == {9, 10, Space}

RECURSIVE trimStart(_)
trimStart(str) ==
    IF str # <<>> /\ Head(str) \in WhiteSpace THEN trimStart(Tail(str)) ELSE str

RECURSIVE trimEnd(_)
trimEnd(str) ==
    IF str # <<>> /\ str[Len(str)] \in WhiteSpace
    THEN trimEnd(SubSeq(str, 1, Len(str) - 1))
    ELSE str

\* mutation of trim: the text is taken as it is
trim_Omitted(str) == str

\* String.prototype.trim()
trim(str) == trimEnd(trimStart(str))

\* String.prototype.split(sep) for a one-unit separator: the pieces between
\* the separators, empty pieces included; the empty string gives one empty piece
RECURSIVE splitFrom(_, _, _)
splitFrom(str, sep, piece) ==
    IF str = <<>> THEN <<piece>>
    ELSE IF Head(str) = sep THEN <<piece>> \o splitFrom(Tail(str), sep, <<>>)
    ELSE splitFrom(Tail(str), sep, Append(piece, Head(str)))

split(str, sep) == splitFrom(str, sep, <<>>)

\* [...new Set(all)]: the first occurrence of every element, in order
RECURSIVE uniqueInOrder(_)
uniqueInOrder(all) ==
    IF all = <<>> THEN <<>>
    ELSE LET init == uniqueInOrder(SubSeq(all, 1, Len(all) - 1))
             last == all[Len(all)]
         IN  IF last \in Range(init) THEN init ELSE Append(init, last)

\* images.flatMap(img => img.keywords)
RECURSIVE flatMapKeywords(_)
flatMapKeywords(images) ==
    IF images = <<>> THEN <<>>
    ELSE Head(images).keywords \o flatMapKeywords(Tail(images))

----------------------------------------------------------------------------
(* The filename clean-up of generateImageDetails (geminiService.ts 73-94) *)

\* the code unit of '-'
Hyphen == 45

\* String.prototype.toLowerCase(), on the code units the model uses: A-Z and
\* the Latin-1 capitals map to their small letters, the rest stays
toLowerCase(str) ==
    [k \in 1..Len(str) |->
        IF str[k] \in 65..90 \/ str[k] \in 192..214 \/ str[k] \in 216..222
        THEN str[k] + 32
        ELSE str[k]]

\* replace(/\s+/g, '-'): every maximal run of white space becomes one hyphen
RECURSIVE replaceWhiteSpaceRuns(_)
replaceWhiteSpaceRuns(str) ==
    IF str = <<>> THEN <<>>
    ELSE IF Head(str) \in WhiteSpace
         THEN <<Hyphen>> \o replaceWhiteSpaceRuns(trimStart(str))
         ELSE <<Head(str)>> \o replaceWhiteSpaceRuns(Tail(str))

\* replace(/[^a-z0-9-]/g, '')
stripOthers(str) ==
    LET Kept(c) == c \in 97..122 \/ c \in 48..57 \/ c = Hyphen
    IN  SelectSeq(str, Kept)

\* mutation of collapseHyphens: runs of hyphens are left as they are
collapseHyphens_Omitted(str) == str

\* replace(/-+/g, '-'): every maximal run of hyphens becomes one hyphen
RECURSIVE collapseHyphens(_)
collapseHyphens(str) ==
    IF Len(str) < 2 THEN str
    ELSE IF str[1] = Hyphen /\ str[2] = Hyphen THEN collapseHyphens(Tail(str))
    ELSE <<Head(str)>> \o collapseHyphens(Tail(str))

\* mutation of trimHyphens: the ends are left as they are
trimHyphens_Omitted(str) == str

\* replace(/^-|-$/g, ''): a hyphen at the start is removed, and a hyphen at the
\* end of what is left of the string after that match
trimHyphens(str) ==
    LET first == IF str # <<>> /\ str[1] = Hyphen THEN Tail(str) ELSE str
    IN  IF first # <<>> /\ first[Len(first)] = Hyphen
        THEN SubSeq(first, 1, Len(first) - 1)
        ELSE first

\* lines 74-80; raw is jsonResponse.filename || ''
cleanedFilename(raw) ==
    trimHyphens(collapseHyphens(stripOthers(replaceWhiteSpaceRuns(toLowerCase(trim(raw))))))

\* the decimal digits of a number that is not negative, as `${n}` writes them
RECURSIVE decimal(_)
decimal(n) == IF n < 10 THEN <<48 + n>> ELSE decimal(n \div 10) \o <<48 + (n % 10)>>

\* "image-"
ImagePrefix == <<105, 109, 97, 103, 101, Hyphen>>

\* lines 84-94: the filename generateImageDetails returns; now is Date.now()
returnedFilename(raw, now) ==
    IF cleanedFilename(raw) = <<>>
    THEN ImagePrefix \o decimal(now)
    ELSE cleanedFilename(raw)

----------------------------------------------------------------------------
(* Derived values of a render (App, lines 29-39 and 245-247) *)

\* lines 29-31
userKeywordList ==
    IF trim(userKeywords) # <<>>
    THEN LET pieces  == split(userKeywords, Comma)
             trimmed == [k \in 1..Len(pieces) |-> trim(pieces[k])]
             Truthy(k) == k # <<>>
         IN  SelectSeq(trimmed, Truthy)
    ELSE <<>>

\* lines 35-39
allUniqueKeywords ==
    LET imageKeywords == flatMapKeywords(processedImages)
        all == userKeywordList \o imageKeywords
    IN  sort(uniqueInOrder(all))

\* processedImages.filter(image => !image.suggestedName && !image.isLoading)
imagesToProcess(images) ==
    LET Test(image) == image.suggestedName = "" /\ ~image.isLoading
    IN  Ids(SelectSeq(images, Test))

imagesToProcessCount == Len(imagesToProcess(processedImages))

\* mutation of successfulImages: only items that are neither loading nor failed
successfulImages_SettledOnly ==
    LET Test(img) == img.suggestedName # "" /\ ~img.isLoading /\ img.error = null
    IN  SelectSeq(processedImages, Test)

\* processedImages.filter(img => !!img.suggestedName)
successfulImages ==
    LET Test(img) == img.suggestedName # "" IN SelectSeq(processedImages, Test)

successfulCount == Len(successfulImages)

\* processedImages.some(img => img.isLoading)
isProcessing == \E i \in 1..Len(processedImages) : processedImages[i].isLoading

----------------------------------------------------------------------------
(* handleImageUpload *)

\* mutation of ImageId: the id without its random component
ImageId_NoRandom(file, rnd) == <<file.name, file.lastModified, 0>>

\* `${file.name}-${file.lastModified}-${Math.random()}`
\* Math.random() is modelled as a draw that never repeats: rnd is the number of
\* the draw.  Two draws giving the same double is outside what this model covers.
ImageId(file, rnd) == <<file.name, file.lastModified, rnd>>

\* the code unit of '.'
Dot == 46

\* String.prototype.lastIndexOf(c): the 0-based index of the last c, -1 if none
RECURSIVE lastIndexOf(_, _)
lastIndexOf(str, c) ==
    IF str = <<>> THEN -1
    ELSE IF str[Len(str)] = c THEN Len(str) - 1
    ELSE lastIndexOf(SubSeq(str, 1, Len(str) - 1), c)

\* String.prototype.slice(start): from the 0-based index start to the end; a
\* negative start counts from the end
slice(str, start) ==
    LET from == IF start < 0
                THEN (IF Len(str) + start < 0 THEN 0 ELSE Len(str) + start)
                ELSE start
    IN  SubSeq(str, from + 1, Len(str))

\* URL.createObjectURL(file): every call returns a URL of its own; n is the
\* number of the call (one call per item, as for Math.random())
createObjectURL(n) == <<"blob", n>>

NewImage(file, rnd) ==
    [ id            |-> ImageId(file, rnd),
      file          |-> file,
      imageUrl      |-> createObjectURL(rnd),
      originalExtension |-> slice(file.name, lastIndexOf(file.name, Dot)),
      suggestedName |-> "",
      isLoading     |-> FALSE,
      error         |-> null,
      keywords      |-> <<>> ]

\* the arrays of files one upload can carry
UploadInputs ==
    UNION { [1..n -> Files] : n \in 1..MaxFilesPerUpload }

handleImageUpload(files) ==
    LET isImage(f) == IsImageType(f.type)
        imageFiles == SelectSeq(files, isImage)
        newImages  == [k \in 1..Len(imageFiles) |->
                          NewImage(imageFiles[k], nextRand + k)]
    IN  /\ nextRand + Len(imageFiles) <= MaxUploads
        /\ nextRand' = nextRand + Len(imageFiles)
        /\ processedImages' =
              IF Len(newImages) > 0 THEN processedImages \o newImages
              ELSE processedImages
        /\ UNCHANGED <<requests, batches, revoked, userKeywords, wordLimit, cleaning>>

----------------------------------------------------------------------------
(* handleGenerateNameForImage *)

\* mutation of imageToProcessFound: the lookup reads the live collection
imageToProcessFound_Live(closure, id) == Exists(processedImages, id)

\* what a handler reads of the render it belongs to: the ids of processedImages
\* (line 21), wordLimit (line 23) and userKeywords (line 24) of that render
Closure(images) ==
    [ ids          |-> Ids(images),
      wordLimit    |-> wordLimit,
      userKeywords |-> userKeywords ]

\* lines 69-70: processedImages.find(img => img.id === id), where processedImages
\* is the array of the render the handler belongs to
imageToProcessFound(closure, id) == id \in Range(closure.ids)

\* lines 72-74: prev.map(img => img.id === id ? {...img, isLoading: true, error: null} : img)
MarkLoading(prev, id) ==
    [i \in 1..Len(prev) |->
        IF prev[i].id = id
        THEN [prev[i] EXCEPT !.isLoading = TRUE, !.error = null]
        ELSE prev[i]]

\* mutation of ApplySuccess: a result for an id that is gone is appended
ApplySuccess_Resurrect(prev, id, details) ==
    IF Exists(prev, id)
    THEN [i \in 1..Len(prev) |->
            IF prev[i].id = id
            THEN [prev[i] EXCEPT !.suggestedName = details.filename,
                                 !.keywords = sort(details.keywords),
                                 !.isLoading = FALSE]
            ELSE prev[i]]
    ELSE Append(prev, [ id |-> id, file |-> CHOOSE f \in Files : IsImageType(f.type),
                        imageUrl |-> createObjectURL(0), originalExtension |-> <<>>,
                        suggestedName |-> details.filename, isLoading |-> FALSE,
                        error |-> null, keywords |-> sort(details.keywords) ])

\* mutation of ApplySuccess: the new keywords are merged into the old ones
ApplySuccess_Merge(prev, id, details) ==
    [i \in 1..Len(prev) |->
        IF prev[i].id = id
        THEN [prev[i] EXCEPT !.suggestedName = details.filename,
                             !.keywords = sort(@ \o details.keywords),
                             !.isLoading = FALSE]
        ELSE prev[i]]

\* mutation of ApplySuccess: the result is stored but isLoading is left set
ApplySuccess_StillLoading(prev, id, details) ==
    [i \in 1..Len(prev) |->
        IF prev[i].id = id
        THEN [prev[i] EXCEPT !.suggestedName = details.filename,
                             !.keywords = sort(details.keywords)]
        ELSE prev[i]]

\* lines 78-80: the success branch
ApplySuccess(prev, id, details) ==
    [i \in 1..Len(prev) |->
        IF prev[i].id = id
        THEN [prev[i] EXCEPT !.suggestedName = details.filename,
                             !.keywords = sort(details.keywords),
                             !.isLoading = FALSE]
        ELSE prev[i]]

\* mutation of ApplyFailure: the message is stored but isLoading is left set
ApplyFailure_StillLoading(prev, id, errorMessage) ==
    [i \in 1..Len(prev) |->
        IF prev[i].id = id
        THEN [prev[i] EXCEPT !.error = errorMessage]
        ELSE prev[i]]

\* lines 81-86: the catch branch
ApplyFailure(prev, id, errorMessage) ==
    [i \in 1..Len(prev) |->
        IF prev[i].id = id
        THEN [prev[i] EXCEPT !.isLoading = FALSE, !.error = errorMessage]
        ELSE prev[i]]

\* mutation of Completion: a rejected call rejects the handler's promise too
Completion_Rethrow(outcome) == IF outcome.ok THEN "returned" ELSE "threw"

\* lines 76-87: how the promise of handleGenerateNameForImage settles once the
\* awaited call has settled: both the try and the catch branch run to the end
Completion(outcome) == "returned"

\* mutation of CallArguments: the call reads the settings of the latest render
CallArguments_Live(closure) ==
    [wordLimit |-> wordLimit, userKeywords |-> userKeywords]

\* line 77: generateImageDetails(imageToProcess.file, wordLimit, userKeywords),
\* the two settings being those of the handler's render
CallArguments(closure) ==
    [wordLimit |-> closure.wordLimit, userKeywords |-> closure.userKeywords]

\* lines 68-77: the part of the handler that runs before its await.
\* closure: the render the handler belongs to; owner: the batch run that
\* awaits the handler, 0 when it was started by a Retry button.
BeginGeneration(closure, id, owner) ==
    IF imageToProcessFound(closure, id)
    THEN /\ BagCardinality(requests) < MaxInFlight
         /\ processedImages' = MarkLoading(processedImages, id)
         /\ requests' = requests (+)
                SetToBag({[id           |-> id,
                           owner        |-> owner,
                           wordLimit    |-> CallArguments(closure).wordLimit,
                           userKeywords |-> CallArguments(closure).userKeywords]})
    ELSE UNCHANGED <<processedImages, requests>>

\* ImageItem.tsx lines 67-85 and App line 405: the Retry button of item i
Retry(i) ==
    /\ i \in 1..Len(processedImages)
    /\ ~processedImages[i].isLoading
    /\ processedImages[i].error # null
    /\ ~isProcessing
    /\ BeginGeneration(Closure(processedImages), processedImages[i].id, 0)
    /\ UNCHANGED <<nextRand, batches, revoked, userKeywords, wordLimit, cleaning>>

----------------------------------------------------------------------------
(* handleGenerateAllNames *)

\* mutation of Snapshot: every item of the collection is taken
Snapshot_All(images) == Ids(images)

\* line 90: the items one run will visit
Snapshot(images) == imagesToProcess(images)

\* lines 96-98: where the loop is once `await handleGenerateNameForImage` has
\* settled: in the pacing delay, or out of the loop if the await threw
AfterCall(completion) == IF completion = "returned" THEN "delay" ELSE "aborted"

\* a slot no run occupies
Idle ==
    [ closure  |-> [ids |-> <<>>, wordLimit |-> InitialWordLimit, userKeywords |-> <<>>],
      snapshot |-> <<>>,
      idx      |-> 0,
      pc       |-> "idle",
      calls    |-> <<>>,
      delays   |-> 0 ]

\* a run of the loop: closure (the render the click was handled in), snapshot
\* (imagesToProcess), idx (position in the snapshot), pc, and two logs:
\* calls (ids generateImageDetails was called for) and delays (timers elapsed)
NewBatch(images) ==
    [ closure  |-> Closure(images),
      snapshot |-> Snapshot(images),
      idx      |-> 1,
      pc       |-> "start",
      calls    |-> <<>>,
      delays   |-> 0 ]

\* one iteration's call, lines 92-96, of the run in slot b at position run.idx
Iterate(b, run) ==
    LET id     == run.snapshot[run.idx]
        called == imageToProcessFound(run.closure, id)
    IN  /\ BeginGeneration(run.closure, id, b)
        /\ batches' =
             [batches EXCEPT ![b] =
                 [run EXCEPT !.pc = IF called THEN "awaiting"
                                    ELSE AfterCall("returned"),
                             !.calls = IF called THEN Append(@, id) ELSE @]]

\* App lines 323-330: the Generate All button; the run takes a free slot
GenerateAll ==
    /\ imagesToProcessCount # 0
    /\ ~isProcessing
    /\ \E b \in 1..MaxBatches :
          /\ batches[b].pc = "idle"
          /\ \A c \in 1..(b - 1) : batches[c].pc # "idle"
          /\ Iterate(b, NewBatch(processedImages))
    /\ UNCHANGED <<nextRand, revoked, userKeywords, wordLimit, cleaning>>

\* the settling of the call r in flight with the given outcome, and what the
\* awaiting code does with it up to its next await
Resolve(r, outcome) ==
    /\ BagIn(r, requests)
    /\ processedImages' =
          IF outcome.ok
          THEN ApplySuccess(processedImages, r.id, outcome)
          ELSE ApplyFailure(processedImages, r.id, outcome.message)
    /\ requests' = requests (-) SetToBag({r})
    /\ batches' =
          IF r.owner = 0 THEN batches
          ELSE [batches EXCEPT ![r.owner].pc = AfterCall(Completion(outcome))]
    /\ UNCHANGED <<nextRand, revoked, userKeywords, wordLimit, cleaning>>

\* line 98: the 1100 ms timer of run b fires; the loop takes its next step
TimerFire(b) ==
    /\ b \in 1..MaxBatches
    /\ batches[b].pc = "delay"
    /\ LET run == [batches[b] EXCEPT !.delays = @ + 1]
       IN  IF run.idx < Len(run.snapshot)
           THEN Iterate(b, [run EXCEPT !.idx = @ + 1])
           ELSE /\ batches' = [batches EXCEPT ![b] = Idle]
                /\ UNCHANGED <<processedImages, requests>>
    /\ UNCHANGED <<nextRand, revoked, userKeywords, wordLimit, cleaning>>

----------------------------------------------------------------------------
(* Removal and edits *)

\* URL.revokeObjectURL(url), recorded
revokeObjectURL(bag, url) == bag (+) SetToBag({url})

\* line 103: processedImages.forEach(image => URL.revokeObjectURL(image.imageUrl))
RECURSIVE revokeEach(_, _)
revokeEach(bag, images) ==
    IF images = <<>> THEN bag
    ELSE revokeEach(revokeObjectURL(bag, Head(images).imageUrl), Tail(images))

\* lines 102-105 (the button is rendered while the collection is not empty)
handleClearAll ==
    /\ Len(processedImages) > 0
    /\ revoked' = revokeEach(revoked, processedImages)
    /\ processedImages' = <<>>
    /\ UNCHANGED <<nextRand, requests, batches, userKeywords, wordLimit, cleaning>>

\* mutation of handleRemoveImage: the item is dropped, its URL is not revoked
handleRemoveImage_NoRevoke(i) ==
    /\ i \in 1..Len(processedImages)
    /\ LET id == processedImages[i].id
           Test(img) == img.id # id
       IN  processedImages' = SelectSeq(processedImages, Test)
    /\ UNCHANGED <<nextRand, requests, batches, revoked, userKeywords, wordLimit, cleaning>>

\* lines 107-113, from the remove button of item i: the item found in the
\* render's array has its URL revoked, then the id is filtered out
handleRemoveImage(i) ==
    /\ i \in 1..Len(processedImages)
    /\ LET id == processedImages[i].id
           Test(img) == img.id # id
           imageToRemove == { img \in Range(processedImages) : img.id = id }
       IN  /\ revoked' =
                IF imageToRemove # {}
                THEN revokeObjectURL(revoked,
                         processedImages[CHOOSE k \in 1..Len(processedImages) :
                              /\ processedImages[k].id = id
                              /\ \A j \in 1..(k - 1) : processedImages[j].id # id].imageUrl)
                ELSE revoked
           /\ processedImages' = SelectSeq(processedImages, Test)
    /\ UNCHANGED <<nextRand, requests, batches, userKeywords, wordLimit, cleaning>>

\* the texts the user can leave in the vocabulary field:
\* "", "  ", "a,B", " a , ,ab", "B,a,,a" and "a b"
UserKeywordTexts ==
    { <<>>,
      <<Space, Space>>,
      <<97, Comma, 66>>,
      <<Space, 97, Space, Comma, Space, Comma, 97, 98>>,
      <<66, Comma, 97, Comma, Comma, 97>>,
      <<97, Space, 98>> }

\* line 279: onChange={(e) => setUserKeywords(e.target.value)}
setUserKeywords(text) ==
    /\ Len(processedImages) > 0
    /\ userKeywords' = text
    /\ UNCHANGED <<processedImages, nextRand, requests, batches, revoked, wordLimit, cleaning>>

\* what e.target.valueAsNumber can be when the word-limit field changes: NaN
\* (the field is empty or not a number, nan is TRUE and n is not read), or the
\* number n; the min and max attributes (lines 301-302) do not stop typing
WordLimitInputs ==
    {[nan |-> TRUE, n |-> 0]} \cup [nan : {FALSE}, n : {-3, 0, 5, 20}]

\* lines 121-126; the field is rendered while the collection is not empty
\* (line 268)
handleWordLimitChange(value) ==
    /\ Len(processedImages) > 0
    /\ wordLimit' = IF ~value.nan /\ value.n > 0 THEN value.n ELSE wordLimit
    /\ UNCHANGED <<processedImages, nextRand, requests, batches, revoked, userKeywords, cleaning>>

\* what the user can type into the name field
EditedNames == {"", "sunset-walk"}

\* mutation of handleNameChange: the edit also dismisses the item's error
handleNameChange_ClearsError(i, newName) ==
    /\ i \in 1..Len(processedImages)
    /\ processedImages' = [processedImages EXCEPT ![i].suggestedName = newName,
                                                  ![i].error = null]
    /\ UNCHANGED <<nextRand, requests, batches, revoked, userKeywords, wordLimit, cleaning>>

\* lines 115-119
handleNameChange(i, newName) ==
    /\ i \in 1..Len(processedImages)
    /\ processedImages' = [processedImages EXCEPT ![i].suggestedName = newName]
    /\ UNCHANGED <<nextRand, requests, batches, revoked, userKeywords, wordLimit, cleaning>>

\* keywordsToAdd.filter(k => !img.keywords.includes(k))
newKeywords(img, keywordsToAdd) ==
    FilterSeq(keywordsToAdd, Range(keywordsToAdd) \ Range(img.keywords))

\* lines 131-137 and 151-157: the keywords of img after the addition
updatedKeywords(img, keywordsToAdd) ==
    IF Len(newKeywords(img, keywordsToAdd)) > 0
    THEN sort(img.keywords \o newKeywords(img, keywordsToAdd))
    ELSE img.keywords

\* the selections a keyword picker can submit (KeywordAdder.tsx lines 35-46,
\* GlobalKeywordAdder.tsx lines 31-42): not empty, no keyword twice, click order
Selections ==
    { s \in UNION { [1..n -> Keywords] : n \in 1..2 } :
        \A a, b \in 1..Len(s) : a # b => s[a] # s[b] }

\* lines 128-139
handleAddKeywords(i, keywordsToAdd) ==
    /\ i \in 1..Len(processedImages)
    /\ processedImages' =
          [processedImages EXCEPT ![i].keywords =
                updatedKeywords(processedImages[i], keywordsToAdd)]
    /\ UNCHANGED <<nextRand, requests, batches, revoked, userKeywords, wordLimit, cleaning>>

\* mutation of handleAddKeywordsToAll: the answer to the confirmation is ignored
handleAddKeywordsToAll_NoConfirm(keywordsToAdd, confirmed) ==
    /\ processedImages' =
          IF Len(keywordsToAdd) = 0 \/ successfulCount = 0
          THEN processedImages
          ELSE [k \in 1..Len(processedImages) |->
                  IF processedImages[k].suggestedName # ""
                  THEN [processedImages[k] EXCEPT !.keywords =
                            updatedKeywords(processedImages[k], keywordsToAdd)]
                  ELSE processedImages[k]]
    /\ UNCHANGED <<nextRand, requests, batches, revoked, userKeywords, wordLimit, cleaning>>

\* lines 141-159; confirmed: the answer to window.confirm
handleAddKeywordsToAll(keywordsToAdd, confirmed) ==
    /\ processedImages' =
          IF Len(keywordsToAdd) = 0 \/ successfulCount = 0 \/ ~confirmed
          THEN processedImages
          ELSE [k \in 1..Len(processedImages) |->
                  IF processedImages[k].suggestedName # ""
                  THEN [processedImages[k] EXCEPT !.keywords =
                            updatedKeywords(processedImages[k], keywordsToAdd)]
                  ELSE processedImages[k]]
    /\ UNCHANGED <<nextRand, requests, batches, revoked, userKeywords, wordLimit, cleaning>>

\* mutation of handleRemoveKeyword: the keyword leaves every item
handleRemoveKeyword_EveryItem(i, keywordToRemove) ==
    /\ i \in 1..Len(processedImages)
    /\ processedImages' =
          [k \in 1..Len(processedImages) |->
              [processedImages[k] EXCEPT !.keywords =
                    FilterSeq(@, Range(@) \ {keywordToRemove})]]
    /\ UNCHANGED <<nextRand, requests, batches, revoked, userKeywords, wordLimit, cleaning>>

\* lines 161-169
handleRemoveKeyword(i, keywordToRemove) ==
    /\ i \in 1..Len(processedImages)
    /\ processedImages' =
          [processedImages EXCEPT ![i].keywords =
                FilterSeq(@, Range(@) \ {keywordToRemove})]
    /\ UNCHANGED <<nextRand, requests, batches, revoked, userKeywords, wordLimit, cleaning>>

----------------------------------------------------------------------------
(* Exports.  The handlers read the render's successfulImages and set no state  *)
(* of the collection; each is modelled by what it hands to the outside.        *)

\* lines 41-43: successfulImages.map(img => img.suggestedName), the pieces that
\* join(', ') strings together
renamedFilesList ==
    [k \in 1..Len(successfulImages) |-> successfulImages[k].suggestedName]

\* lines 186-189: the zip.file(newFilename, image.file) calls of
\* handleDownloadAll, in order; none when nothing is successful (line 181).
\* item: the id of the image the call was made for.
zipFileCalls ==
    [k \in 1..Len(successfulImages) |->
        [ newFilename |-> <<successfulImages[k].suggestedName,
                            successfulImages[k].originalExtension>>,
          file |-> successfulImages[k].file,
          item |-> successfulImages[k].id ]]

\* lines 185-189: the entries of the archive once the forEach is over, entry
\* name to the call that wrote it; zip.file(name, data) adds the entry or, when
\* the archive has an entry of that name, replaces it, so the last call stays
archive ==
    [ name \in { zipFileCalls[k].newFilename : k \in 1..Len(zipFileCalls) } |->
        zipFileCalls[CHOOSE k \in 1..Len(zipFileCalls) :
                        /\ zipFileCalls[k].newFilename = name
                        /\ \A l \in (k + 1)..Len(zipFileCalls) :
                              zipFileCalls[l].newFilename # name] ]

\* the names of the model in the order of String.prototype.localeCompare: the
\* empty string first, then by first letter (c before s) in every locale
Collation == <<"", "city-lights", "sunset-walk">>

\* a.localeCompare(b): negative, zero or positive
localeCompare(a, b) ==
    (CHOOSE k \in 1..Len(Collation) : Collation[k] = a)
    - (CHOOSE k \in 1..Len(Collation) : Collation[k] = b)

\* insert image x, which stood before every element of the sorted sequence s,
\* keeping the order of elements that compare equal (the sort is stable)
RECURSIVE InsertByName(_, _)
InsertByName(x, s) ==
    IF s = <<>> THEN <<x>>
    ELSE IF localeCompare(x.suggestedName, Head(s).suggestedName) <= 0
         THEN <<x>> \o s
         ELSE <<Head(s)>> \o InsertByName(x, Tail(s))

\* mutation of sortByName: the rows keep the order of the collection
sortByName_Omitted(images) == images

\* lines 209-211: [...successfulImages].sort((a, b) => a.suggestedName.localeCompare(b.suggestedName))
RECURSIVE sortByName(_)
sortByName(images) ==
    IF images = <<>> THEN <<>>
    ELSE InsertByName(Head(images), sortByName(Tail(images)))

sortedData == sortByName(successfulImages)

\* what handleDownloadCsv hands to the download when it returns at line 207
NothingExported == [exported |-> FALSE]

\* lines 206-228: the content of the CSV file.  A row is kept as its two
\* cells: the new name as the pair <<suggestedName, originalExtension>> that
\* the template string concatenates, and the keywords that join(', ') strings
\* together; the quoting is not modelled.
handleDownloadCsv ==
    IF Len(successfulImages) = 0 THEN NothingExported
    ELSE [ exported |-> TRUE,
           header   |-> "New File Name,Keywords",
           rows     |-> [k \in 1..Len(sortedData) |->
                            [ newName  |-> <<sortedData[k].suggestedName,
                                             sortedData[k].originalExtension>>,
                              keywords |-> sortedData[k].keywords ]] ]

\* line 150: the items of prev the bulk application acts on, once it is past the
\* guard of line 142 and the confirmation
bulkTargets(prev) ==
    IF successfulCount = 0 THEN <<>>
    ELSE LET Test(img) == img.suggestedName # "" IN Ids(SelectSeq(prev, Test))

----------------------------------------------------------------------------
(* Specifications *)

Init ==
    /\ processedImages = <<>>
    /\ nextRand = 0
    /\ requests = EmptyBag
    /\ batches = [b \in 1..MaxBatches |-> Idle]
    /\ revoked = EmptyBag
    /\ userKeywords = <<>>
    /\ wordLimit = InitialWordLimit
    /\ cleaning = NoResponse

Upload == \E files \in UploadInputs : handleImageUpload(files)
RetryItem == \E i \in 1..Len(processedImages) : Retry(i)
Timer == \E b \in 1..MaxBatches : TimerFire(b)
RemoveImage == \E i \in 1..Len(processedImages) : handleRemoveImage(i)
\* the name field is rendered by renderStatus (ImageItem.tsx lines 55-122) only
\* for an item that is not loading, has no error and has a name
NameChange ==
    \E i \in 1..Len(processedImages) : \E n \in EditedNames :
        /\ ~processedImages[i].isLoading
        /\ processedImages[i].error = null
        /\ processedImages[i].suggestedName # ""
        /\ handleNameChange(i, n)
\* KeywordAdder.tsx lines 16-18: the tag editor offers the declared keywords
\* the image does not have yet
AddKeywords ==
    \E i \in 1..Len(processedImages) : \E ks \in Selections :
        /\ processedImages[i].suggestedName # ""
        /\ Range(ks) \subseteq Range(userKeywordList) \ Range(processedImages[i].keywords)
        /\ handleAddKeywords(i, ks)
\* lines 380-390: the bulk picker is rendered while something is successful,
\* and submits a selection that is not empty
AddKeywordsToAll ==
    /\ successfulCount > 0
    /\ \E ks \in Selections : \E c \in BOOLEAN :
          /\ Range(ks) \subseteq Range(allUniqueKeywords)
          /\ handleAddKeywordsToAll(ks, c)
SetUserKeywords == \E text \in UserKeywordTexts : setUserKeywords(text)
\* ImageItem.tsx lines 152-181: the keyword chips, each with its remove button,
\* are shown while the item has a name
RemoveKeyword ==
    \E i \in 1..Len(processedImages) : \E k \in Keywords :
        /\ processedImages[i].suggestedName # ""
        /\ k \in Range(processedImages[i].keywords)
        /\ handleRemoveKeyword(i, k)

\* Spec: uploads, removals and generation (batch runs and retries).
\* The calls settle with one name and no keywords, or with one error.
SpecOutcomes ==
    { o \in Outcomes : /\ o.filename \in {"", "sunset-walk"}
                       /\ o.keywords = <<>>
                       /\ o.message \in {null, "Rate limit exceeded. Please wait and retry."} }

ResolveCall == \E r \in BagToSet(requests) : \E outcome \in SpecOutcomes : Resolve(r, outcome)

Next ==
    \/ Upload
    \/ GenerateAll
    \/ RetryItem
    \/ ResolveCall
    \/ Timer
    \/ RemoveImage
    \/ handleClearAll

Spec == Init /\ [][Next]_vars

\* the vocabulary text "ab,B,a": every keyword of the model is declared
TypedVocabulary == Kwab \o <<Comma>> \o KwB \o <<Comma>> \o Kwa

\* SpecKw: the edits.  Two images have been uploaded and the vocabulary has
\* been typed; the calls succeed with
\* any of the keyword arrays; the name field and the keyword handlers act on
\* the results, and an item whose name was emptied is generated again.
InitKw ==
    /\ processedImages =
          [k \in 1..2 |-> NewImage(CHOOSE f \in Files : IsImageType(f.type), k)]
    /\ nextRand = 2
    /\ requests = EmptyBag
    /\ batches = [b \in 1..MaxBatches |-> Idle]
    /\ revoked = EmptyBag
    /\ userKeywords = TypedVocabulary
    /\ wordLimit = InitialWordLimit
    /\ cleaning = NoResponse

KwOutcomes == { o \in Outcomes : o.ok /\ o.filename = "sunset-walk" }

ResolveCallKw ==
    \E r \in BagToSet(requests) : \E outcome \in KwOutcomes : Resolve(r, outcome)

NextKw ==
    \/ GenerateAll
    \/ ResolveCallKw
    \/ Timer
    \/ NameChange
    \/ AddKeywords
    \/ AddKeywordsToAll
    \/ RemoveKeyword

SpecKw == InitKw /\ [][NextKw]_vars

\* SpecFair: generation with the scheduling the runtime gives, from the state
\* where two images have been uploaded (InitKw).  Every call in flight
\* settles (the promise of generateImageDetails resolves or rejects) and every
\* timer that was set fires.  The user's steps (remove, Generate All, Retry)
\* carry no fairness.  The timer step is strongly fair: setTimeout
\* fires whatever else happens, while in the model MaxInFlight can disable the
\* step for a moment.
PossibleRequests ==
    { [id |-> ImageId(f, n), owner |-> b,
       wordLimit |-> InitialWordLimit, userKeywords |-> TypedVocabulary] :
        f \in { g \in Files : IsImageType(g.type) },
        n \in 1..MaxUploads,
        b \in 0..MaxBatches }

SettleCall(r) == \E outcome \in SpecOutcomes : Resolve(r, outcome)

NextFair ==
    \/ GenerateAll
    \/ RetryItem
    \/ ResolveCall
    \/ Timer
    \/ RemoveImage

SpecFair ==
    /\ InitKw
    /\ [][NextFair]_vars
    /\ \A r \in PossibleRequests : WF_vars(SettleCall(r))
    /\ \A b \in 1..MaxBatches : SF_vars(TimerFire(b))

\* SpecRegen: generation run again on items that have results.  Two images
\* have been uploaded; calls settle with a name the user does not type, with no
\* keywords or two, or with the rate-limit error; the user edits names (to the
\* empty name or to another name), adds keywords in the
\* tag editor, retries failed items and starts batch runs.
RegenOutcomes ==
    { o \in Outcomes : /\ o.filename \in {"", "city-lights"}
                       /\ o.keywords \in {<<>>, <<Kwab, KwB>>}
                       /\ o.message \in {null, "Rate limit exceeded. Please wait and retry."} }

ResolveCallRegen ==
    \E r \in BagToSet(requests) : \E outcome \in RegenOutcomes : Resolve(r, outcome)

NextRegen ==
    \/ GenerateAll
    \/ RetryItem
    \/ ResolveCallRegen
    \/ Timer
    \/ NameChange
    \/ AddKeywords

SpecRegen == InitKw /\ [][NextRegen]_vars

\* SpecVocab: the vocabulary field and the keywords of the items.  Two images
\* have been uploaded; the calls succeed with any of the keyword arrays; the
\* user retypes the vocabulary and edits names (an emptied name leaves an item
\* that has keywords and is not successful).
NextVocab ==
    \/ GenerateAll
    \/ ResolveCallKw
    \/ Timer
    \/ NameChange
    \/ SetUserKeywords

SpecVocab == InitKw /\ [][NextVocab]_vars

\* SpecBulk: handleAddKeywordsToAll as a function of its arguments.  Two
\* images have been uploaded and are generated; the handler is called in any
\* state of the collection, with the empty list too and with either answer to
\* the confirmation, which is what its guards (lines 142-146) are written for.
BulkArguments == Selections \cup {<<>>}

BulkCall ==
    \E ks \in BulkArguments : \E c \in BOOLEAN : handleAddKeywordsToAll(ks, c)

NextBulk ==
    \/ GenerateAll
    \/ ResolveCallKw
    \/ Timer
    \/ BulkCall

SpecBulk == InitKw /\ [][NextBulk]_vars

\* SpecEdit: the edit handlers as functions of their arguments.  Two images
\* have been uploaded and are generated; the calls settle with a name and one
\* of two keyword arrays (one of them names a keyword twice), or fail.  Each
\* handler (lines 115-119, 128-139, 141-159, 161-169) is called on any item, in
\* any status, with any name, selection or keyword, a keyword the item does not
\* have included.  The user presses Generate All only while no run is going on.
EditOutcomes ==
    { o \in Outcomes :
        \/ /\ o.ok
           /\ o.filename = "city-lights"
           /\ o.keywords \in {<<Kwab, KwB>>, <<Kwa, Kwa>>}
        \/ /\ ~o.ok
           /\ o.message = "Rate limit exceeded. Please wait and retry." }

ResolveCallEdit ==
    \E r \in BagToSet(requests) : \E outcome \in EditOutcomes : Resolve(r, outcome)

GenerateAllAtRest ==
    /\ \A b \in 1..MaxBatches : batches[b] = Idle
    /\ GenerateAll

NameChangeCall ==
    \E i \in 1..Len(processedImages) : \E n \in EditedNames : handleNameChange(i, n)

AddKeywordsCall ==
    \E i \in 1..Len(processedImages) : \E ks \in Selections : handleAddKeywords(i, ks)

RemoveKeywordCall ==
    \E i \in 1..Len(processedImages) : \E k \in Keywords : handleRemoveKeyword(i, k)

NextEdit ==
    \/ GenerateAllAtRest
    \/ ResolveCallEdit
    \/ Timer
    \/ NameChangeCall
    \/ AddKeywordsCall
    \/ BulkCall
    \/ RemoveKeywordCall

SpecEdit == InitKw /\ [][NextEdit]_vars

\* SpecNames: the extension captured at upload as a function of the file
\* name.  Image files of every name up to MaxNameLen units over NameUnits ('a'
\* and '.') are uploaded one at a time: names with one dot, with several dots
\* and with none; Clear All empties the collection.
MaxNameLen == 3

NameUnits == {97, Dot}

NamedFiles ==
    [ name : UNION { [1..n -> NameUnits] : n \in 1..MaxNameLen },
      lastModified : {1},
      type : {<<"image", "jpeg">>} ]

UploadNamed == \E f \in NamedFiles : handleImageUpload(<<f>>)

NextNames ==
    \/ UploadNamed
    \/ handleClearAll

SpecNames == Init /\ [][NextNames]_vars

\* SpecSettings: the two generation settings.  Two images have been uploaded
\* and the vocabulary has been typed; the calls succeed with a name and no
\* keywords or fail; the user empties the vocabulary and retypes the word limit
\* at any moment, a run's awaits and pacing delays included, and starts runs.
SettingsOutcomes ==
    { o \in Outcomes :
        \/ o.ok /\ o.filename = "city-lights" /\ o.keywords = <<>>
        \/ ~o.ok /\ o.message = "Rate limit exceeded. Please wait and retry." }

ResolveCallSettings ==
    \E r \in BagToSet(requests) : \E outcome \in SettingsOutcomes : Resolve(r, outcome)

SettingsTexts == {<<>>, TypedVocabulary}

SetVocabulary == \E text \in SettingsTexts : setUserKeywords(text)

WordLimitChange == \E value \in WordLimitInputs : handleWordLimitChange(value)

NextSettings ==
    \/ GenerateAll
    \/ ResolveCallSettings
    \/ Timer
    \/ SetVocabulary
    \/ WordLimitChange

SpecSettings == InitKw /\ [][NextSettings]_vars

\* SpecClean: the filename clean-up as a function of the title in the AI
\* response.  Every title up to MaxTitleLen units over TitleUnits arrives; the
\* clean-up is applied to it, and then once more to its own result.
\* TitleUnits: 'A', '7', '-', ' ', '_' and a capital E with acute accent.
MaxTitleLen == 4

TitleUnits == {65, 55, Hyphen, Space, 95, 201}

RawTitles == UNION { [1..n -> TitleUnits] : n \in 0..MaxTitleLen }

\* values of Date.now() (milliseconds; small numbers stand for the real ones)
Nows == {0, 907}

InitClean ==
    /\ processedImages = <<>>
    /\ nextRand = 0
    /\ requests = EmptyBag
    /\ batches = [b \in 1..MaxBatches |-> Idle]
    /\ revoked = EmptyBag
    /\ userKeywords = <<>>
    /\ wordLimit = InitialWordLimit
    /\ cleaning \in [stage : {"parsed"}, raw : RawTitles, now : Nows]

\* lines 73-94: the clean-up and the return
CleanTitle ==
    /\ cleaning.stage = "parsed"
    /\ cleaning' = [ stage    |-> "returned",
                     raw      |-> cleaning.raw,
                     cleaned  |-> cleanedFilename(cleaning.raw),
                     filename |-> returnedFilename(cleaning.raw, cleaning.now) ]
    /\ UNCHANGED <<processedImages, nextRand, requests, batches, revoked, userKeywords, wordLimit>>

\* the clean-up applied to a title that is its own earlier result
CleanAgain ==
    /\ cleaning.stage = "returned"
    /\ cleaning' = [ stage   |-> "recleaned",
                     raw     |-> cleaning.raw,
                     cleaned |-> cleaning.cleaned,
                     again   |-> cleanedFilename(cleaning.cleaned) ]
    /\ UNCHANGED <<processedImages, nextRand, requests, batches, revoked, userKeywords, wordLimit>>

NextClean ==
    \/ CleanTitle
    \/ CleanAgain

SpecClean == InitClean /\ [][NextClean]_vars

\* SpecFail: the catch block of generateImageDetails (geminiService.ts 96-108)
\* and the failure branch of handleGenerateNameForImage (lines 81-86) as a
\* function of what was caught.  Caught is either what the request threw (an
\* Error, or some other object) or the SyntaxError of JSON.parse on a response
\* that is not JSON.

\* s.includes(needle)
includes(str, needle) ==
    \E i \in 0..(Len(str) - Len(needle)) : SubSeq(str, i + 1, i + Len(needle)) = needle

\* the markers: '429', 'resource_exhausted', 'rate limit'
Marker429 == <<52, 50, 57>>
MarkerResourceExhausted == <<114, 101, 115, 111, 117, 114, 99, 101, 95, 101, 120, 104, 97, 117, 115, 116, 101, 100>>
MarkerRateLimit == <<114, 97, 116, 101, 32, 108, 105, 109, 105, 116>>

\* ": "
ColonSpace == <<58, 32>>

\* Error.prototype.toString(): name, ": ", message (the name alone when the
\* message is empty)
errorToString(error) ==
    IF error.message = <<>> THEN error.name ELSE error.name \o ColonSpace \o error.message

\* line 101: error instanceof Error ? error.toString() : JSON.stringify(error),
\* in lower case
errorText(error) ==
    toLowerCase(IF error.instanceOfError THEN errorToString(error) ELSE error.json)

\* mutation of thrownMessage: the text is searched as it came, upper case included
thrownMessage_CaseSensitive(error) ==
    LET text == IF error.instanceOfError THEN errorToString(error) ELSE error.json
    IN  IF \/ includes(text, Marker429)
           \/ includes(text, MarkerResourceExhausted)
           \/ includes(text, MarkerRateLimit)
        THEN "Rate limit exceeded. Please wait and retry."
        ELSE "Failed to generate details from AI service."

\* lines 103-107: the message of the Error the catch block throws
thrownMessage(error) ==
    IF \/ includes(errorText(error), Marker429)
       \/ includes(errorText(error), MarkerResourceExhausted)
       \/ includes(errorText(error), MarkerRateLimit)
    THEN "Rate limit exceeded. Please wait and retry."
    ELSE "Failed to generate details from AI service."

\* part_000 line 82: err instanceof Error ? err.message : 'An unknown error occurred.';
\* what generateImageDetails throws is always an Error
errorMessage(err) == IF err.instanceOfError THEN err.message ELSE "An unknown error occurred."

\* how the message of a request failure can start: "", "got status: ", "ApiError "
MessagePrefixes ==
    { <<>>,
      <<103, 111, 116, 32, 115, 116, 97, 116, 117, 115, 58, 32>>,
      <<65, 112, 105, 69, 114, 114, 111, 114, 32>> }

\* its core: "429", "500", "42 9", "RESOURCE_EXHAUSTED", "resource_exhausted",
\* "Resource Exhausted", "Rate Limit", "rate limit", "rate-limit", "quota"
MessageCores ==
    { <<52, 50, 57>>,
      <<53, 48, 48>>,
      <<52, 50, 32, 57>>,
      <<82, 69, 83, 79, 85, 82, 67, 69, 95, 69, 88, 72, 65, 85, 83, 84, 69, 68>>,
      <<114, 101, 115, 111, 117, 114, 99, 101, 95, 101, 120, 104, 97, 117, 115, 116, 101, 100>>,
      <<82, 101, 115, 111, 117, 114, 99, 101, 32, 69, 120, 104, 97, 117, 115, 116, 101, 100>>,
      <<82, 97, 116, 101, 32, 76, 105, 109, 105, 116>>,
      <<114, 97, 116, 101, 32, 108, 105, 109, 105, 116>>,
      <<114, 97, 116, 101, 45, 108, 105, 109, 105, 116>>,
      <<113, 117, 111, 116, 97>> }

\* how it can end: "", ".", " Too Many Requests"
MessageSuffixes ==
    { <<>>,
      <<46>>,
      <<32, 84, 111, 111, 32, 77, 97, 110, 121, 32, 82, 101, 113, 117, 101, 115, 116, 115>> }

\* JSON.stringify of a rejection that is not an Error: {"code":429}, {"code":500},
\* {"status":"RESOURCE_EXHAUSTED"}, {"status":"UNAVAILABLE"}
RejectionJsons ==
    { <<123, 34, 99, 111, 100, 101, 34, 58, 52, 50, 57, 125>>,
      <<123, 34, 99, 111, 100, 101, 34, 58, 53, 48, 48, 125>>,
      <<123, 34, 115, 116, 97, 116, 117, 115, 34, 58, 34, 82, 69, 83, 79, 85, 82, 67, 69, 95, 69, 88, 72, 65, 85, 83, 84, 69, 68, 34, 125>>,
      <<123, 34, 115, 116, 97, 116, 117, 115, 34, 58, 34, 85, 78, 65, 86, 65, 73, 76, 65, 66, 76, 69, 34, 125>> }

\* messages of the SyntaxError of JSON.parse: "Unexpected end of JSON input",
\* "Unexpected token < in JSON at position 0",
\* "Unterminated string in JSON at position 429",
\* 'Unexpected token R, "Rate limit"... is not valid JSON'
ParseMessages ==
    { <<85, 110, 101, 120, 112, 101, 99, 116, 101, 100, 32, 101, 110, 100, 32, 111, 102, 32, 74, 83, 79, 78, 32, 105, 110, 112, 117, 116>>,
      <<85, 110, 101, 120, 112, 101, 99, 116, 101, 100, 32, 116, 111, 107, 101, 110, 32, 60, 32, 105, 110, 32, 74, 83, 79, 78, 32, 97, 116, 32, 112, 111, 115, 105, 116, 105, 111, 110, 32, 48>>,
      <<85, 110, 116, 101, 114, 109, 105, 110, 97, 116, 101, 100, 32, 115, 116, 114, 105, 110, 103, 32, 105, 110, 32, 74, 83, 79, 78, 32, 97, 116, 32, 112, 111, 115, 105, 116, 105, 111, 110, 32, 52, 50, 57>>,
      <<85, 110, 101, 120, 112, 101, 99, 116, 101, 100, 32, 116, 111, 107, 101, 110, 32, 82, 44, 32, 34, 82, 97, 116, 101, 32, 108, 105, 109, 105, 116, 34, 46, 46, 46, 32, 105, 115, 32, 110, 111, 116, 32, 118, 97, 108, 105, 100, 32, 74, 83, 79, 78>> }

\* "Error" and "SyntaxError"
ErrorName == <<69, 114, 114, 111, 114>>
SyntaxErrorName == <<83, 121, 110, 116, 97, 120, 69, 114, 114, 111, 114>>

\* what the catch block can catch; origin tells the request's own failures
\* from the failures of JSON.parse (line 71)
CaughtErrors ==
    { [origin |-> "request", instanceOfError |-> TRUE, name |-> ErrorName,
       message |-> p \o c \o x, json |-> <<>>] :
          p \in MessagePrefixes, c \in MessageCores, x \in MessageSuffixes }
    \cup
    { [origin |-> "request", instanceOfError |-> FALSE, name |-> <<>>,
       message |-> <<>>, json |-> j] : j \in RejectionJsons }
    \cup
    { [origin |-> "parse", instanceOfError |-> TRUE, name |-> SyntaxErrorName,
       message |-> m, json |-> <<>>] : m \in ParseMessages }

InitFail ==
    /\ processedImages = <<>>
    /\ nextRand = 0
    /\ requests = EmptyBag
    /\ batches = [b \in 1..MaxBatches |-> Idle]
    /\ revoked = EmptyBag
    /\ userKeywords = <<>>
    /\ wordLimit = InitialWordLimit
    /\ cleaning \in [stage : {"caught"}, error : CaughtErrors]

\* geminiService.ts lines 96-108: the catch block throws its own Error
ThrowClassified ==
    /\ cleaning.stage = "caught"
    /\ cleaning' = [ stage  |-> "thrown",
                     error  |-> cleaning.error,
                     thrown |-> [instanceOfError |-> TRUE,
                                 message |-> thrownMessage(cleaning.error)] ]
    /\ UNCHANGED <<processedImages, nextRand, requests, batches, revoked, userKeywords, wordLimit>>

\* part_000 lines 81-86: the message that becomes the item's error
CatchInHandler ==
    /\ cleaning.stage = "thrown"
    /\ cleaning' = [ stage     |-> "stored",
                     error     |-> cleaning.error,
                     itemError |-> errorMessage(cleaning.thrown) ]
    /\ UNCHANGED <<processedImages, nextRand, requests, batches, revoked, userKeywords, wordLimit>>

NextFail ==
    \/ ThrowClassified
    \/ CatchInHandler

SpecFail == InitFail /\ [][NextFail]_vars

----------------------------------------------------------------------------
(* Claims *)

Active(b) == batches[b].pc # "idle"

\* the calls in flight that the run in slot b awaits
OwnInFlight(b) ==
    BagCardinality([r \in { q \in BagToSet(requests) : q.owner = b } |->
                        CopiesIn(r, requests)])

\* C1: a batch run issues one generation call per snapshot item, in snapshot
\* order, and alternates call and pacing delay: while call k is awaited the
\* k-1 delays before it have elapsed, during delay k no call of the run is in
\* flight, and the run ends only after N calls and N delays.
C1_CallsFollowSnapshot ==
    \A b \in 1..MaxBatches :
        Active(b) =>
            LET run == batches[b]
            IN  /\ run.idx \in 1..Len(run.snapshot)
                /\ run.calls = SubSeq(run.snapshot, 1, run.idx)
                /\ run.delays = run.idx - 1
                /\ run.pc \in {"awaiting", "delay"}
                /\ run.pc = "awaiting" => OwnInFlight(b) = 1
                /\ run.pc = "delay" => OwnInFlight(b) = 0

C1_RunEndsAfterAllCalls ==
    \A b \in 1..MaxBatches :
        (Active(b) /\ ~Active(b)') =>
            /\ batches[b].pc = "delay"
            /\ Len(batches[b].calls) = Len(batches[b].snapshot)
            /\ batches[b].delays + 1 = Len(batches[b].snapshot)

C2_AtMostOneInFlight == BagCardinality(requests) <= 1

\* C3: when a call settles (success or failure) for an item that is no longer
\* in the collection, the collection is left exactly as it was (nothing
\* re-added, no other item changed) and the awaiting run goes on to its delay
C3_ResultForRemovedItemDiscarded ==
    [][ \A r \in BagToSet(requests) : \A o \in SpecOutcomes :
            (~Exists(processedImages, r.id) /\ Resolve(r, o)) =>
                /\ processedImages' = processedImages
                /\ r.owner # 0 => batches'[r.owner].pc = "delay" ]_vars

\* C3 witness: a call is in flight for an item that has been removed while
\* another item is still in the collection
C3_Witness ==
    /\ Len(processedImages) > 0
    /\ \E r \in BagToSet(requests) : ~Exists(processedImages, r.id)

\* C4: when the timer of a run fires and the next snapshot item is no longer
\* in the live collection, no generation call is issued for it and the run
\* goes into its next pacing delay
C4_NoCallForRemovedItem ==
    [][ \A b \in 1..MaxBatches :
            ( /\ TimerFire(b)
              /\ batches[b].idx < Len(batches[b].snapshot)
              /\ ~Exists(processedImages, batches[b].snapshot[batches[b].idx + 1]) )
            => /\ requests' = requests
               /\ batches'[b].pc = "delay"
               /\ batches'[b].idx = batches[b].idx + 1 ]_vars

\* the ids of the items of images that have an empty name and are not
\* loading, from position i on, in collection order
RECURSIVE PendingIdsFrom(_, _)
PendingIdsFrom(images, i) ==
    IF i > Len(images) THEN <<>>
    ELSE IF images[i].suggestedName = "" /\ images[i].isLoading = FALSE
         THEN <<images[i].id>> \o PendingIdsFrom(images, i + 1)
         ELSE PendingIdsFrom(images, i + 1)

\* C5: the snapshot of a run is the pending items (empty name, not loading) of
\* the collection at the moment the run starts, in collection order; it never
\* changes while the run is under way, and the run calls for no other item
C5_SnapshotTakenAtStart ==
    \A b \in 1..MaxBatches :
        (~Active(b) /\ Active(b)') =>
            batches'[b].snapshot = PendingIdsFrom(processedImages, 1)

C5_SnapshotFrozen ==
    \A b \in 1..MaxBatches :
        (Active(b) /\ Active(b)') => batches'[b].snapshot = batches[b].snapshot

C5_CallsWithinSnapshot ==
    \A b \in 1..MaxBatches : Range(batches[b].calls) \subseteq Range(batches[b].snapshot)

C5_SnapshotFixedAtInvocation ==
    /\ [][C5_SnapshotTakenAtStart /\ C5_SnapshotFrozen]_vars
    /\ [](C5_CallsWithinSnapshot)

\* C5 witness: a run is in the delay after its last item while the collection
\* holds a pending item that was uploaded after the run started
C5_Witness ==
    \E b \in 1..MaxBatches :
        /\ batches[b].pc = "delay"
        /\ batches[b].idx = Len(batches[b].snapshot)
        /\ \E i \in 1..Len(processedImages) :
              /\ processedImages[i].id \notin Range(batches[b].closure.ids)
              /\ processedImages[i].suggestedName = ""
              /\ ~processedImages[i].isLoading

\* C6: when a call fails, the item (if still there) ends not loading and with
\* an error message, no other item changes, and the run that awaited the call
\* is not aborted: it goes into its pacing delay at the same position
C6_FailureCaughtPerItem ==
    [][ \A r \in BagToSet(requests) : \A o \in { x \in SpecOutcomes : ~x.ok } :
            (CopiesIn(r, requests') < CopiesIn(r, requests) /\ Resolve(r, o)) =>
                /\ Len(processedImages') = Len(processedImages)
                /\ \A i \in 1..Len(processedImages) :
                      IF processedImages[i].id = r.id
                      THEN /\ processedImages'[i].isLoading = FALSE
                           /\ processedImages'[i].error # null
                           /\ processedImages'[i].id = r.id
                      ELSE processedImages'[i] = processedImages[i]
                /\ r.owner # 0 =>
                      /\ batches'[r.owner].pc = "delay"
                      /\ batches'[r.owner].idx = batches[r.owner].idx
                      /\ batches'[r.owner].snapshot = batches[r.owner].snapshot ]_vars

\* C6 witness: the first item of a run has failed, a second item is still to
\* come and the run is in its pacing delay
C6_Witness ==
    \E b \in 1..MaxBatches :
        /\ batches[b].pc = "delay"
        /\ batches[b].idx < Len(batches[b].snapshot)
        /\ \E i \in 1..Len(processedImages) :
              /\ processedImages[i].id = batches[b].snapshot[batches[b].idx]
              /\ processedImages[i].error # null
              /\ ~processedImages[i].isLoading
        /\ \E j \in 1..Len(processedImages) :
              processedImages[j].id = batches[b].snapshot[batches[b].idx + 1]

\* the number of the three status conditions that hold of an item
StatusCount(img) ==
    (IF img.isLoading THEN 1 ELSE 0)
    + (IF img.error # null THEN 1 ELSE 0)
    + (IF img.suggestedName # "" THEN 1 ELSE 0)

\* C7: every item is in exactly one status: at most one of isLoading, error
\* set and suggestedName set holds
C7_ExactlyOneStatus ==
    \A i \in 1..Len(processedImages) : StatusCount(processedImages[i]) <= 1

\* C8: no item's keyword list contains the same string twice
C8_KeywordsUnique ==
    \A i \in 1..Len(processedImages) :
        LET kw == processedImages[i].keywords
        IN  \A a, b \in 1..Len(kw) : a # b => kw[a] # kw[b]

\* C9: every item's keyword list is sorted ascending by code units
C9_KeywordsSorted ==
    \A i \in 1..Len(processedImages) :
        LET kw == processedImages[i].keywords
        IN  \A a \in 1..(Len(kw) - 1) : ~StrLess(kw[a + 1], kw[a])

\* C9 witness: a list where an upper-case keyword stands before a lower-case
\* one and a keyword before its own extension
C9_Witness ==
    \E i \in 1..Len(processedImages) :
        processedImages[i].keywords = <<KwB, Kwa, Kwab>>

\* C10: no two items of the collection have the same id
C10_IdsUnique ==
    \A i, j \in 1..Len(processedImages) :
        i # j => processedImages[i].id # processedImages[j].id

\* C10 witness: the same file (name and lastModified) is in the collection twice
C10_Witness ==
    \E i, j \in 1..Len(processedImages) :
        /\ i # j
        /\ processedImages[i].file = processedImages[j].file

\* C11: a preview URL is revoked exactly once, when its item leaves the
\* collection: the URL of an item in the collection has never been revoked,
\* and the URL of every item created and no longer in the collection has been
\* revoked exactly once
C11_UrlRevokedExactlyOnce ==
    \A n \in 1..nextRand :
        LET url == createObjectURL(n)
        IN  IF \E i \in 1..Len(processedImages) : processedImages[i].imageUrl = url
            THEN CopiesIn(url, revoked) = 0
            ELSE CopiesIn(url, revoked) = 1

\* C11 witness: one item has left by handleRemoveImage or handleClearAll while
\* a generation call for it is still in flight, and another item is still in the
\* collection
C11_Witness ==
    /\ BagCardinality(revoked) = 1
    /\ Len(processedImages) = 1
    /\ \E r \in BagToSet(requests) : ~Exists(processedImages, r.id)

\* a call settling leaves its item, if still in the collection, with a name
\* or with an error
C12_ResolvedItemLeavesPending ==
    \A r \in BagToSet(requests) :
        SettleCall(r) =>
            \A i \in 1..Len(processedImages') :
                processedImages'[i].id = r.id =>
                    \/ processedImages'[i].suggestedName # ""
                    \/ processedImages'[i].error # null

\* C12: when every call settles and every timer fires, every batch run ends,
\* the item of every settling call (if still in the collection) gets a name or
\* an error, and whenever an item is loading a state follows where none is
\* (isProcessing false)
C12_BatchTerminates ==
    /\ \A b \in 1..MaxBatches : Active(b) ~> ~Active(b)
    /\ [][C12_ResolvedItemLeavesPending]_vars
    /\ isProcessing ~> ~isProcessing

\* C12 witness: a run over two items has ended: no run is under way, no call
\* is in flight, nothing is loading, one item has a name and the other an error
C12_Witness ==
    /\ \A b \in 1..MaxBatches : ~Active(b)
    /\ requests = EmptyBag
    /\ ~isProcessing
    /\ Len(processedImages) = 2
    /\ processedImages[1].suggestedName # "" /\ processedImages[1].error = null
    /\ processedImages[2].suggestedName = "" /\ processedImages[2].error # null

\* t holds the elements of s, each as often as in s, in ascending order
IsSortedArrangement(t, s) ==
    /\ Len(t) = Len(s)
    /\ \A x \in Range(s) \cup Range(t) :
          Cardinality({ k \in 1..Len(t) : t[k] = x }) =
          Cardinality({ k \in 1..Len(s) : s[k] = x })
    /\ \A a \in 1..(Len(t) - 1) : ~StrLess(t[a + 1], t[a])

\* a step that starts a call for an item sets its isLoading, clears its error
\* and changes nothing else, whatever name, error and keywords the item has
C13_RerunStartsSameSequence ==
    \A r \in PossibleRequests :
        CopiesIn(r, requests') > CopiesIn(r, requests) =>
            /\ Len(processedImages') = Len(processedImages)
            /\ \A i \in 1..Len(processedImages) :
                  processedImages'[i] =
                      IF processedImages[i].id = r.id
                      THEN [processedImages[i] EXCEPT !.isLoading = TRUE, !.error = null]
                      ELSE processedImages[i]

\* a call that settles with success leaves its item with the new name, the new
\* keywords in ascending order and nothing of the keywords it had
C13_SuccessReplaces ==
    \A r \in BagToSet(requests) : \A o \in { x \in RegenOutcomes : x.ok } :
        (CopiesIn(r, requests') < CopiesIn(r, requests) /\ Resolve(r, o)) =>
            \A i \in 1..Len(processedImages) :
                processedImages[i].id = r.id =>
                    /\ processedImages'[i].suggestedName = o.filename
                    /\ IsSortedArrangement(processedImages'[i].keywords, o.keywords)
                    /\ processedImages'[i].isLoading = FALSE
                    /\ processedImages'[i].error = processedImages[i].error

\* C13: generation run again on an item that has a name or an error goes
\* through the same sequence (isLoading set and error cleared, then the result
\* applied), and a success replaces name and keywords by the new name and the
\* sorted new keywords, without merging in the keywords the item had
C13_RerunReplacesResult ==
    [][C13_RerunStartsSameSequence /\ C13_SuccessReplaces]_vars

\* C13 witness: a call is in flight for an item that has a name and carries a
\* keyword only the user can have added
C13_Witness ==
    \E i \in 1..Len(processedImages) :
        /\ processedImages[i].isLoading
        /\ processedImages[i].suggestedName # ""
        /\ Kwa \in Range(processedImages[i].keywords)
        /\ \E r \in BagToSet(requests) : r.id = processedImages[i].id

\* the ids of the items that have a name, whatever else they hold
NamedIds == { processedImages[i].id : i \in { j \in 1..Len(processedImages) :
                                                processedImages[j].suggestedName # "" } }

\* seq lists every id of set once and nothing else
ListsExactly(seq, set) ==
    /\ Range(seq) = set
    /\ Len(seq) = Cardinality(set)

\* C14: the archive export, the CSV export, the clipboard list and the bulk
\* keyword application each take exactly the items with a non-empty
\* suggestedName, whatever their isLoading and error
C14_SuccessfulIffNamed ==
    /\ ListsExactly([k \in 1..Len(zipFileCalls) |-> zipFileCalls[k].item], NamedIds)
    /\ ListsExactly(Ids(sortedData), NamedIds)
    /\ ListsExactly(bulkTargets(processedImages), NamedIds)
    /\ Len(renamedFilesList) = Cardinality(NamedIds)
    /\ \A k \in 1..Len(renamedFilesList) : renamedFilesList[k] # ""

\* C14 witness: beside an item that is being generated for the first time, an
\* item has a name and the error of a later attempt that failed
C14_Witness ==
    \E i, j \in 1..Len(processedImages) :
        /\ processedImages[i].suggestedName # ""
        /\ processedImages[i].error # null
        /\ processedImages[j].suggestedName = ""
        /\ processedImages[j].isLoading

\* t is the strictly ascending list of the strings that occur in a or in k
IsSortedUnion(t, a, k) ==
    /\ Range(t) = Range(a) \cup Range(k)
    /\ \A x \in 1..(Len(t) - 1) : StrLess(t[x], t[x + 1])

\* C15: a confirmed bulk application of the keywords K leaves every item that
\* has a name with the sorted, duplicate-free union of its keywords and K,
\* leaves an item that had every keyword of K as it was, and leaves every item
\* without a name as it was
C15_BulkAddGivesSortedUnion ==
    [][ \A K \in Selections :
            handleAddKeywordsToAll(K, TRUE) =>
                /\ Len(processedImages') = Len(processedImages)
                /\ \A i \in 1..Len(processedImages) :
                      LET old == processedImages[i]
                          new == processedImages'[i]
                      IN  /\ old.suggestedName # "" =>
                                /\ IsSortedUnion(new.keywords, old.keywords, K)
                                /\ new = [old EXCEPT !.keywords = new.keywords]
                          /\ (old.suggestedName # "" /\ Range(K) \subseteq Range(old.keywords))
                                => new = old
                          /\ old.suggestedName = "" => new = old ]_vars

\* C16: a bulk application with the empty keyword list, or while no item has
\* a name, or declined at the confirmation leaves the whole collection as it
\* was
C16_BulkAddNoOp ==
    [][ \A K \in BulkArguments : \A c \in BOOLEAN :
            ( /\ handleAddKeywordsToAll(K, c)
              /\ \/ K = <<>>
                 \/ \A i \in 1..Len(processedImages) : processedImages[i].suggestedName = ""
                 \/ ~c )
            => processedImages' = processedImages ]_vars

\* C16 witness: one item has a name and lacks a keyword that can be chosen (a
\* confirmed application would change it), the other has no name
C16_Witness ==
    /\ Len(processedImages) = 2
    /\ processedImages[1].suggestedName # ""
    /\ Kwa \notin Range(processedImages[1].keywords)
    /\ processedImages[2].suggestedName = ""

\* the declared vocabulary, said without split and trim: the strings that
\* stand between two commas (or an end of the text) with the white space
\* around them taken off, the empty ones left out
VocabularySet(text) ==
    { SubSeq(text, a, b) : <<a, b>> \in
        { ab \in (1..Len(text)) \X (1..Len(text)) :
            /\ ab[1] <= ab[2]
            /\ text[ab[1]] \notin WhiteSpace /\ text[ab[2]] \notin WhiteSpace
            /\ \A k \in ab[1]..ab[2] : text[k] # Comma
            /\ \E i \in 1..ab[1] : \E j \in ab[2]..Len(text) :
                  /\ i = 1 \/ text[i - 1] = Comma
                  /\ j = Len(text) \/ text[j + 1] = Comma
                  /\ \A k \in i..(ab[1] - 1) : text[k] \in WhiteSpace
                  /\ \A k \in (ab[2] + 1)..j : text[k] \in WhiteSpace } }

\* C17: the list offered by the bulk picker is the strictly ascending (sorted,
\* duplicate-free) list of the declared vocabulary together with every
\* keyword of every item, named or not
C17_AllUniqueKeywordsIsUnion ==
    /\ Range(allUniqueKeywords) =
          VocabularySet(userKeywords)
          \cup UNION { Range(processedImages[i].keywords) : i \in 1..Len(processedImages) }
    /\ \A x \in 1..(Len(allUniqueKeywords) - 1) :
          StrLess(allUniqueKeywords[x], allUniqueKeywords[x + 1])

\* C17 witness: the text " a , ,ab" is in the field, an item without a name
\* holds keywords and an item holds the same keyword twice
C17_Witness ==
    /\ userKeywords = <<Space, 97, Space, Comma, Space, Comma, 97, 98>>
    /\ \E i \in 1..Len(processedImages) :
          /\ processedImages[i].suggestedName = ""
          /\ processedImages[i].keywords = <<KwB, Kwab>>
    /\ \E i \in 1..Len(processedImages) : processedImages[i].keywords = <<Kwa, Kwa>>

\* the positions of the items that have a name
NamedPositions ==
    { i \in 1..Len(processedImages) : processedImages[i].suggestedName # "" }

\* C18: the CSV holds one row for each item that has a name and no other row,
\* the rows ascend by suggestedName, each row pairs suggestedName +
\* originalExtension with the keywords of its item, and nothing is exported
\* when no item has a name
C18_CsvRowsAreNamedItemsSorted ==
    IF NamedPositions = {}
    THEN handleDownloadCsv = NothingExported
    ELSE LET rows == handleDownloadCsv.rows
         IN  /\ handleDownloadCsv.exported
             /\ Len(rows) = Cardinality(NamedPositions)
             /\ \E item \in [1..Len(rows) -> NamedPositions] :
                   /\ \A a, b \in 1..Len(rows) : a # b => item[a] # item[b]
                   /\ \A k \in 1..Len(rows) :
                         /\ rows[k].newName =
                               <<processedImages[item[k]].suggestedName,
                                 processedImages[item[k]].originalExtension>>
                         /\ rows[k].keywords = processedImages[item[k]].keywords
             /\ \A k \in 1..(Len(rows) - 1) :
                   localeCompare(rows[k].newName[1], rows[k + 1].newName[1]) <= 0

\* C18 witness: the first item is named sunset-walk, the second city-lights
\* and holds keywords, so the rows come in the other order than the items
C18_Witness ==
    /\ Len(processedImages) = 2
    /\ processedImages[1].suggestedName = "sunset-walk"
    /\ processedImages[2].suggestedName = "city-lights"
    /\ processedImages[2].keywords = <<KwB, Kwab>>
    /\ processedImages[1].keywords = <<>>

\* the units a filename may hold: a-z, 0-9 and the hyphen
FilenameUnits == (97..122) \cup (48..57) \cup {Hyphen}

\* C19: the filename generateImageDetails returns is never empty, holds only
\* a-z, 0-9 and hyphens, neither starts nor ends with a hyphen and has no two
\* hyphens in a row; when the cleaned title is empty it is "image-" followed
\* by digits
C19_FilenameWellFormed ==
    cleaning.stage = "returned" =>
        LET name == cleaning.filename
        IN  /\ name # <<>>
            /\ Range(name) \subseteq FilenameUnits
            /\ name[1] # Hyphen
            /\ name[Len(name)] # Hyphen
            /\ \A k \in 1..(Len(name) - 1) : ~(name[k] = Hyphen /\ name[k + 1] = Hyphen)
            /\ cleaning.cleaned = <<>> =>
                  /\ Len(name) > Len(ImagePrefix)
                  /\ SubSeq(name, 1, Len(ImagePrefix)) = ImagePrefix
                  /\ \A k \in (Len(ImagePrefix) + 1)..Len(name) : name[k] \in 48..57

\* C19 witness: the title "-_ -" has been cleaned to nothing and the fallback
\* name was returned
C19_Witness ==
    /\ cleaning.stage = "returned"
    /\ cleaning.raw = <<Hyphen, 95, Space, Hyphen>>
    /\ cleaning.cleaned = <<>>
    /\ cleaning.filename = ImagePrefix \o <<57, 48, 55>>

\* C20: the clean-up applied to its own result gives that result again
C20_CleanIdempotent ==
    cleaning.stage = "recleaned" => cleaning.again = cleaning.cleaned

\* C20 witness: the title "A -7" was cleaned to "a-7" and cleaned again
C20_Witness ==
    /\ cleaning.stage = "recleaned"
    /\ cleaning.raw = <<65, Space, Hyphen, 55>>
    /\ cleaning.cleaned = <<97, Hyphen, 55>>

\* a letter in lower case (A-Z only; the markers hold no other letters)
LowerUnit(c) == IF c \in 65..90 THEN c + 32 ELSE c

\* the text holds the marker somewhere, letters compared without case
HoldsMarker(text, marker) ==
    \E i \in 1..Len(text) :
        /\ i + Len(marker) - 1 <= Len(text)
        /\ \A k \in 1..Len(marker) : LowerUnit(text[i + k - 1]) = marker[k]

\* the text of a caught failure: name and message of an Error, the JSON of
\* anything else
FailureText(error) ==
    IF error.instanceOfError
    THEN error.name \o (IF error.message = <<>> THEN <<>> ELSE ColonSpace \o error.message)
    ELSE error.json

\* C21: a failure of the AI request whose text holds '429',
\* 'resource_exhausted' or 'rate limit' (in any case) gives the item the error
\* "Rate limit exceeded. Please wait and retry."; every other failure of the
\* request, and every response that cannot be parsed as JSON, gives it
\* "Failed to generate details from AI service."
C21_RateLimitClassified ==
    cleaning.stage = "stored" =>
        LET error == cleaning.error
            marked == \/ HoldsMarker(FailureText(error), Marker429)
                      \/ HoldsMarker(FailureText(error), MarkerResourceExhausted)
                      \/ HoldsMarker(FailureText(error), MarkerRateLimit)
        IN  IF error.origin = "request" /\ marked
            THEN cleaning.itemError = "Rate limit exceeded. Please wait and retry."
            ELSE cleaning.itemError = "Failed to generate details from AI service."

\* the same with the unparseable responses left aside: the claim holds of the
\* failures of the request itself
C21_RequestFailuresClassified ==
    (cleaning.stage = "stored" /\ cleaning.error.origin = "request") => C21_RateLimitClassified

\* the positions of list whose keyword is not k
KeptPositions(list, k) == { p \in 1..Len(list) : list[p] # k }

\* after is list without k: the kept keywords, each once per kept position, in
\* their previous order
IsListWithout(after, list, k) ==
    /\ Len(after) = Cardinality(KeptPositions(list, k))
    /\ \A p \in KeptPositions(list, k) :
          after[Cardinality({ q \in KeptPositions(list, k) : q <= p })] = list[p]

\* C22: handleRemoveKeyword(id, k) leaves the item with its keyword list without
\* k, the other keywords in their previous order, with every other field as it
\* was, and leaves every other item as it was; when k is not in the list the
\* list is unchanged.
C22_RemoveKeywordFrame ==
    [][\A i \in 1..Len(processedImages) : \A k \in Keywords :
          \/ /\ Len(processedImages') = Len(processedImages)
             /\ IsListWithout(processedImages'[i].keywords,
                              processedImages[i].keywords, k)
             /\ processedImages'[i] =
                   [processedImages[i] EXCEPT !.keywords = processedImages'[i].keywords]
             /\ \A j \in 1..Len(processedImages) :
                   j # i => processedImages'[j] = processedImages[j]
             /\ k \notin Range(processedImages[i].keywords) =>
                   processedImages'[i].keywords = processedImages[i].keywords
          \/ ~handleRemoveKeyword(i, k)]_vars

\* C22 witness: one item has lost "a" and keeps "B" in front of "ab", while
\* the other item, which has a name too, still lists "B", "a" and "ab"
C22_Witness ==
    /\ Len(processedImages) = 2
    /\ processedImages[1].suggestedName # ""
    /\ processedImages[1].keywords = <<KwB, Kwab>>
    /\ processedImages[2].suggestedName # ""
    /\ processedImages[2].keywords = <<KwB, Kwa, Kwab>>

\* C23: handleNameChange changes the suggestedName of its item and nothing else
\* in the collection; a call of handleAddKeywords, handleAddKeywordsToAll or
\* handleRemoveKeyword, on any item and with any argument, changes no item's
\* suggestedName, isLoading or error.
SameNameAndStatus ==
    /\ Len(processedImages') = Len(processedImages)
    /\ \A j \in 1..Len(processedImages) :
          /\ processedImages'[j].suggestedName = processedImages[j].suggestedName
          /\ processedImages'[j].isLoading = processedImages[j].isLoading
          /\ processedImages'[j].error = processedImages[j].error

C23_EditsIndependent ==
    [][/\ \A i \in 1..Len(processedImages) : \A n \in EditedNames :
             handleNameChange(i, n) =>
                 /\ Len(processedImages') = Len(processedImages)
                 /\ processedImages'[i] =
                       [processedImages[i] EXCEPT !.suggestedName = n]
                 /\ \A j \in 1..Len(processedImages) :
                       j # i => processedImages'[j] = processedImages[j]
       /\ \/ SameNameAndStatus
          \/ ~(AddKeywordsCall \/ BulkCall \/ RemoveKeywordCall)]_vars

\* C23 witness: a failed item carries an edited name, its error and keywords
\* still shown, next to an item whose keywords were edited while it is loading
C23_Witness ==
    /\ Len(processedImages) = 2
    /\ \E i, j \in 1..2 :
          /\ processedImages[i].error # null
          /\ processedImages[i].suggestedName = "sunset-walk"
          /\ processedImages[i].keywords # <<>>
          /\ processedImages[j].isLoading
          /\ processedImages[j].keywords # <<>>

\* a generation request for the item with this id is in flight
InFlightFor(id) == \E r \in BagToSet(requests) : r.id = id

\* C24: an item of the collection has isLoading = true exactly while at least
\* one generation request for it has been started and has not settled.
C24_LoadingIffInFlight ==
    \A i \in 1..Len(processedImages) :
        processedImages[i].isLoading <=> InFlightFor(processedImages[i].id)

\* the half of C24 that the handler keeps: a loading item has a request in flight
C24_LoadingHasRequest ==
    \A i \in 1..Len(processedImages) :
        processedImages[i].isLoading => InFlightFor(processedImages[i].id)

\* the settings a render holds are those of the state
HoldsSettings(closure, limit, text) ==
    closure.wordLimit = limit /\ closure.userKeywords = text

\* C25: a run's render holds the wordLimit and userKeywords that were current
\* when the run was started, for as long as the run goes on, and every call
\* the run issues carries exactly these two values, whatever the two settings
\* have been changed to in the meantime.
C25_RunKeepsItsSettings ==
    /\ [](\A r \in BagToSet(requests) :
             r.owner # 0 =>
                 HoldsSettings(batches[r.owner].closure, r.wordLimit, r.userKeywords))
    /\ [][\A b \in 1..MaxBatches :
             /\ batches[b].pc = "idle" /\ batches'[b].pc # "idle" =>
                   HoldsSettings(batches'[b].closure, wordLimit, userKeywords)
             /\ batches[b].pc # "idle" /\ batches'[b].pc # "idle" =>
                   HoldsSettings(batches'[b].closure, batches[b].closure.wordLimit,
                                 batches[b].closure.userKeywords)]_vars

\* C25 witness: the second call of a run is in flight with the word limit and
\* the vocabulary of the run's start, both settings having been changed since
C25_Witness ==
    \E r \in BagToSet(requests) :
        /\ r.owner # 0
        /\ batches[r.owner].idx = 2
        /\ r.wordLimit = InitialWordLimit
        /\ r.userKeywords = TypedVocabulary
        /\ wordLimit # r.wordLimit
        /\ userKeywords # r.userKeywords

\* C26: the archive of handleDownloadAll has one entry for each successful
\* item, under a name no other successful item has, holding that item's file.
C26_OneEntryPerSuccessfulItem ==
    /\ Cardinality(DOMAIN archive) = Len(successfulImages)
    /\ \A k \in 1..Len(successfulImages) :
          \E name \in DOMAIN archive : archive[name].item = successfulImages[k].id

\* ext is the end of name: its last Len(ext) units
IsSuffix(ext, name) ==
    /\ Len(ext) <= Len(name)
    /\ SubSeq(name, Len(name) - Len(ext) + 1, Len(name)) = ext

\* C27: the originalExtension of every item is empty, or is a suffix of the
\* item's file name that starts with '.'.
C27_ExtensionEmptyOrDotted ==
    \A i \in 1..Len(processedImages) :
        LET ext == processedImages[i].originalExtension
        IN  \/ ext = <<>>
            \/ ext[1] = Dot /\ IsSuffix(ext, processedImages[i].file.name)

\* what C27 says of the names that have a dot: the extension is the suffix that
\* starts at the last dot
C27_DottedNameGivesExtension ==
    \A i \in 1..Len(processedImages) :
        LET ext  == processedImages[i].originalExtension
            name == processedImages[i].file.name
        IN  Dot \in Range(name) =>
                /\ ext[1] = Dot
                /\ IsSuffix(ext, name)
                /\ Dot \notin Range(Tail(ext))

============================================================================
